---- MODULE Spec2Model ----
(***************************************************************************)
(* Trajectory signal-processing pipeline of football-match-intelligence:   *)
(* coordinate normalizer, gap-aware smoother, kinematic derivator,         *)
(* detection-quality filter, distance aggregator and match-clock mapper.   *)
(*                                                                         *)
(* Numbers.  The Python code works on IEEE doubles.  The model uses        *)
(* fixed-point integers: lengths in millimetres, times in milliseconds,    *)
(* speeds in mm/s or in thousandths of a km/h, and every division is a     *)
(* floor division (\div).  The inputs are drawn from grids on which the    *)
(* thresholds of the code (1.5, 110, 5.0 m, 20/25/38/42/45 km/h, 0.2 s)    *)
(* are decided exactly.  A missing value (numpy NaN) is the value NaN.     *)
(***************************************************************************)
EXTENDS Integers, Sequences, FiniteSets, TLC

VARIABLES
    returned,             \* names of the calls that have returned or raised
    frame,                \* calculate_match_clock: frame number
    period,               \* calculate_match_clock: period identifier
    period_start_frames,  \* calculate_match_clock: dict period -> start frame
    fps,                  \* frames per second (match clock, distance metrics)
    clock,                \* result of the scalar form: the "MM:SS" string
    total_seconds,        \* result of the vectorized form (ms), one per row
    x,                    \* x-coordinates handed to a function (mm or raw)
    y,                    \* y-coordinates handed to a function
    x_scaled,             \* infer_and_scale_coordinates: first result
    y_scaled,             \* infer_and_scale_coordinates: second result
    scale_system,         \* infer_and_scale_coordinates: third result
    source_type,          \* to_pitch_meters: source_type argument
    x_m,                  \* to_pitch_meters: first result
    y_m,                  \* to_pitch_meters: second result
    timestamps,           \* timestamps (ms) of the samples of x, y / series
    metrics,              \* result of calculate_distance_metrics
    series,               \* apply_gap_aware_smoothing: the value series
    window_size,          \* apply_gap_aware_smoothing: window_size argument
    smoothed,             \* result of apply_gap_aware_smoothing
    frames,               \* extract_player_data: the dataset's frames
    min_detection_rate,   \* extract_player_data: argument (per mille)
    df,                   \* result of extract_player_data (table of columns)
    tracking_df,          \* calculate_match_minute: the caller's table df
    speed_ms,             \* extract_player_data: speed_ms before np.clip
    log,                  \* records written with logger.warning
    positions,            \* filter_detected_positions: the input table
    filtered              \* result of filter_detected_positions

vars == <<returned, frame, period, period_start_frames, fps, clock,
          total_seconds, x, y, x_scaled, y_scaled, scale_system, source_type,
          x_m, y_m, timestamps,
          metrics, series, window_size, smoothed, frames,
          min_detection_rate, df, speed_ms, log, positions, filtered,
          tracking_df>>

clockVars ==
    <<frame, period, period_start_frames, clock, total_seconds, tracking_df>>
coordVars == <<x_scaled, y_scaled, scale_system, source_type, x_m, y_m>>
arrayVars == <<x, y, timestamps, metrics>>
smoothVars == <<series, window_size, smoothed>>
trackVars ==
    <<frames, min_detection_rate, df, speed_ms, log, positions, filtered>>

----------------------------------------------------------------------------
(* Arithmetic helpers                                                      *)

NaN == -1000000000

IsNaN(v) == v = NaN

Abs(a) == IF a < 0 THEN -a ELSE a

Max2(a, b) == IF a >= b THEN a ELSE b

Min2(a, b) == IF a <= b THEN a ELSE b

\* s[1] + ... + s[k]
RECURSIVE SumTo(_, _)
SumTo(s, k) == IF k = 0 THEN 0 ELSE s[k] + SumTo(s, k - 1)

SeqSum(s) == SumTo(s, Len(s))

SetMax(S) == CHOOSE m \in S : \A v \in S : v <= m

SetMin(S) == CHOOSE m \in S : \A v \in S : m <= v

\* floor of the square root (numpy sqrt at the model's 1 mm resolution)
RECURSIVE SqrtSearch(_, _, _)
SqrtSearch(n, lo, hi) ==
    IF lo >= hi THEN lo
    ELSE LET mid == (lo + hi + 1) \div 2
         IN IF mid * mid <= n THEN SqrtSearch(n, mid, hi)
            ELSE SqrtSearch(n, lo, mid - 1)

Sqrt(n) == SqrtSearch(n, 0, Min2(n, 46340))

\* boolean-mask indexing s[mask]: the elements of s where mask holds, in
\* order, from position i on
RECURSIVE SelectMask(_, _, _)
SelectMask(s, mask, i) ==
    IF i > Len(s) THEN <<>>
    ELSE (IF mask[i] THEN <<s[i]>> ELSE <<>>) \o SelectMask(s, mask, i + 1)

----------------------------------------------------------------------------
(* Match-Clock Mapper: src/src/preprocessing/time.py                       *)

PeriodIds == {1, 2, 3}

FrameValues == {0, 5, 599, 600, 27000, 27625}

StartFrameValues == {0, 10, 27000}

FpsValues == {10, 25}

\* dict.get(k, default)
DictGet(d, k, default) == IF k \in DOMAIN d THEN d[k] ELSE default

DigitChar(d) ==
    CASE d = 0 -> "0" [] d = 1 -> "1" [] d = 2 -> "2" [] d = 3 -> "3"
      [] d = 4 -> "4" [] d = 5 -> "5" [] d = 6 -> "6" [] d = 7 -> "7"
      [] d = 8 -> "8" [] d = 9 -> "9"

RECURSIVE Digits(_)
Digits(n) == IF n < 10 THEN <<DigitChar(n)>>
             ELSE Digits(n \div 10) \o <<DigitChar(n % 10)>>

\* the format specification :02d for n >= 0
Pad2(n) == IF n < 10 THEN <<"0">> \o Digits(n) ELSE Digits(n)

ScalarClockMutNoPad(f, p, starts, rate) ==
    LET start == DictGet(starts, p, 0)
        base == IF p = 1 THEN 0 ELSE 45
        seconds_elapsed == Max2(0, ((f - start) * 1000) \div rate)
        total_minutes == base + (seconds_elapsed \div 60000)
        rem_seconds == (seconds_elapsed % 60000) \div 1000
    IN Digits(total_minutes) \o <<":">> \o Digits(rem_seconds)

\* the scalar branch: returns the clock string as a sequence of characters
ScalarClock(f, p, starts, rate) ==
    LET start == DictGet(starts, p, 0)
        base == IF p = 1 THEN 0 ELSE 45
        seconds_elapsed == Max2(0, ((f - start) * 1000) \div rate)
        total_minutes == base + (seconds_elapsed \div 60000)
        rem_seconds == (seconds_elapsed % 60000) \div 1000
    IN Pad2(total_minutes) \o <<":">> \o Pad2(rem_seconds)

\* the vectorized branch: returns total seconds (here ms), one per row
VectorClock(fcol, pcol, starts, rate) ==
    LET p1_start == DictGet(starts, 1, 0)
        p2_start == DictGet(starts, 2, 0)
        start_frames == [i \in 1..Len(fcol) |->
                            IF pcol[i] = 1 THEN p1_start
                            ELSE IF pcol[i] = 2 THEN p2_start ELSE 0]
        base_minutes == [i \in 1..Len(fcol) |->
                            IF pcol[i] = 2 THEN 45 ELSE 0]
    IN [i \in 1..Len(fcol) |->
           base_minutes[i] * 60000
             + ((fcol[i] - start_frames[i]) * 1000) \div rate]

calculate_match_clock_scalar ==
    /\ "clock_scalar" \notin returned
    /\ clock' = ScalarClock(frame, period, period_start_frames, fps)
    /\ returned' = returned \cup {"clock_scalar"}
    /\ UNCHANGED <<frame, period, period_start_frames, fps, total_seconds,
                   tracking_df>>
    /\ UNCHANGED arrayVars
    /\ UNCHANGED <<coordVars, smoothVars, trackVars>>

calculate_match_clock_vector ==
    /\ "clock_vector" \notin returned
    /\ total_seconds' =
           VectorClock(<<frame>>, <<period>>, period_start_frames, fps)
    /\ returned' = returned \cup {"clock_vector"}
    /\ UNCHANGED <<frame, period, period_start_frames, fps, clock,
                   tracking_df>>
    /\ UNCHANGED arrayVars
    /\ UNCHANGED <<coordVars, smoothVars, trackVars>>

\* src/src/preprocessing/data.py, calculate_match_minute: the table is the
\* caller's object; a column assignment changes it for the caller too.
\* The clock is computed at the default 10 frames per second.
calculate_match_minute ==
    /\ "match_minute" \notin returned
    /\ IF {"frame", "period"} \subseteq tracking_df.columns
       THEN LET seconds == VectorClock(<<frame>>, <<period>>,
                                       period_start_frames, 10)
            IN tracking_df' =
                   [columns |-> tracking_df.columns \cup {"match_minute"},
                    match_minute |->
                        [i \in 1..Len(seconds) |-> seconds[i] \div 60]]
       ELSE tracking_df' = tracking_df
    /\ returned' = returned \cup {"match_minute"}
    /\ UNCHANGED <<frame, period, period_start_frames, fps, clock,
                   total_seconds>>
    /\ UNCHANGED arrayVars
    /\ UNCHANGED <<coordVars, smoothVars, trackVars>>

NoTable == [columns |-> {}, match_minute |-> <<>>]

ClockIdle ==
    /\ frame = 0 /\ period = 1 /\ period_start_frames = <<>>
    /\ clock = <<>> /\ total_seconds = <<>>
    /\ tracking_df = NoTable

CoordIdle ==
    /\ x_scaled = <<>> /\ y_scaled = <<>> /\ scale_system = "none"
    /\ source_type = "none" /\ x_m = <<>> /\ y_m = <<>>

SmoothIdle == series = <<>> /\ window_size = 0 /\ smoothed = <<>>

TrackIdle ==
    /\ frames = <<>> /\ min_detection_rate = 950 /\ df = <<>> /\ log = {}
    /\ speed_ms = <<>>
    /\ positions = <<>> /\ filtered = <<>>

ArraysIdle == x = <<>> /\ y = <<>> /\ timestamps = <<>> /\ metrics = <<>>

\* the column sets of the tables handed to calculate_match_minute
TableColumns == {{"frame", "period"}, {"frame"}}

InitClock ==
    /\ returned = {}
    /\ frame \in FrameValues
    /\ period \in PeriodIds
    /\ period_start_frames \in
           UNION {[S -> StartFrameValues] : S \in SUBSET PeriodIds}
    /\ fps \in FpsValues
    /\ clock = <<>> /\ total_seconds = <<>>
    /\ \E cols \in TableColumns :
           tracking_df = [columns |-> cols, match_minute |-> <<>>]
    /\ ArraysIdle /\ CoordIdle /\ SmoothIdle /\ TrackIdle

NextClock ==
    \/ calculate_match_clock_scalar
    \/ calculate_match_clock_vector
    \/ calculate_match_minute

SpecClock == InitClock /\ [][NextClock]_vars

\* the string a clock shows, read back as whole seconds
RECURSIVE DigitsValue(_)
DigitsValue(s) ==
    IF s = <<>> THEN 0
    ELSE LET d == CHOOSE k \in 0..9 : DigitChar(k) = s[Len(s)]
         IN DigitsValue(SubSeq(s, 1, Len(s) - 1)) * 10 + d

ClockSeconds(c) ==
    LET colon == CHOOSE i \in 1..Len(c) : c[i] = ":"
    IN DigitsValue(SubSeq(c, 1, colon - 1)) * 60
         + DigitsValue(SubSeq(c, colon + 1, Len(c)))

\* C6: the vectorized form on a one-element column yields the same elapsed
\* match time (whole seconds) as the scalar form on that element, for every
\* frame, period and period->start-frame map.
C6_ScalarVectorAgree ==
    ({"clock_scalar", "clock_vector"} \subseteq returned)
        => ClockSeconds(clock) * 1000 = (total_seconds[1] \div 1000) * 1000

\* C7: for a period other than 1 or 2 (and without an entry in the map) both
\* forms return what they return for period 1 with start frame 0: base
\* minutes 0, elapsed time frame/fps.
C7_UnknownPeriodAsPeriodOne ==
    (period \notin {1, 2} /\ period \notin DOMAIN period_start_frames) =>
        /\ ("clock_scalar" \in returned =>
               clock = Pad2((frame \div fps) \div 60) \o <<":">>
                         \o Pad2((frame \div fps) % 60))
        /\ ("clock_vector" \in returned =>
               total_seconds[1] = (frame * 1000) \div fps)

\* C22: no pipeline function modifies what its caller passed in: over every
\* call the input arrays, the input table and its columns keep their values.
C22_InputsUnmodified ==
    [][UNCHANGED <<frame, period, period_start_frames, fps, tracking_df,
                   x, y, timestamps, series, window_size, frames,
                   min_detection_rate, positions>>]_vars

\* the rendering MM:SS of a time in ms: minutes with at least two digits,
\* seconds with two
Rendered(ms) ==
    Pad2(ms \div 60000) \o <<":">> \o Pad2((ms % 60000) \div 1000)

BaseMinutes == [p \in {1, 2} |-> IF p = 1 THEN 0 ELSE 45]

\* (frame - period_start_frame) / fps in ms
ElapsedInPeriod ==
    ((frame - DictGet(period_start_frames, period, 0)) * 1000) \div fps

\* C19 as claimed: for period 1 or 2 the scalar form renders
\* seconds = max(0, base_minutes*60 + (frame - period_start_frame)/fps).
C19_ClaimedFlooredTotal ==
    ("clock_scalar" \in returned /\ period \in {1, 2}) =>
        clock = Rendered(Max2(0, BaseMinutes[period] * 60000
                                   + ElapsedInPeriod))

\* C19 (amended): for period 1 or 2 the scalar form renders
\* seconds = base_minutes*60 + max(0, (frame - period_start_frame)/fps),
\* as MM:SS with MM = floor(seconds/60) in at least two digits and
\* SS = floor(seconds mod 60) in two digits, 00..59; a frame that precedes
\* the start of its period shows the base minutes, 00:00 or 45:00.
C19_ScalarClock ==
    ("clock_scalar" \in returned /\ period \in {1, 2}) =>
        /\ clock = Rendered(BaseMinutes[period] * 60000
                              + Max2(0, ElapsedInPeriod))
        /\ Len(clock) >= 5
        /\ clock[Len(clock) - 2] = ":"
        /\ DigitsValue(SubSeq(clock, Len(clock) - 1, Len(clock))) <= 59

\* a frame of the second period that precedes the period's start
C19_Witness ==
    /\ "clock_scalar" \in returned
    /\ period = 2
    /\ 2 \in DOMAIN period_start_frames
    /\ frame < period_start_frames[2]
    /\ clock = <<"4", "5", ":", "0", "0">>

----------------------------------------------------------------------------
(* Coordinate Normalizer: src/src/utils/coordinates.py                     *)
(* Raw coordinates are in thousandths of their unit (1.5 is 1500).         *)

MaxCoordLen == 2

XValues == {-1500, -1000, -500, 0, 1000, 1500, 2000, 110000, 111000, NaN}

YValues == {-1500, 0, 1000, 1500, 111000, NaN}

PITCH_LENGTH == 105

PITCH_WIDTH == 68

HALF_PITCH_LENGTH == 52500

HALF_PITCH_WIDTH == 34000

\* x[~np.isnan(x)] as the set of its values
Valid(a) == {a[i] : i \in 1..Len(a)} \ {NaN}

to_pitch_meters_0_100(xs, ys) ==
    <<[i \in 1..Len(xs) |-> IF IsNaN(xs[i]) THEN NaN
          ELSE (xs[i] * PITCH_LENGTH) \div 100 - HALF_PITCH_LENGTH],
      [i \in 1..Len(ys) |-> IF IsNaN(ys[i]) THEN NaN
          ELSE (ys[i] * PITCH_WIDTH) \div 100 - HALF_PITCH_WIDTH]>>

to_pitch_metersMutUncentred(xs, ys, source) ==
    IF source = "skillcorner" THEN <<xs, ys>>
    ELSE IF source = "0_1" THEN
        <<[i \in 1..Len(xs) |-> IF IsNaN(xs[i]) THEN NaN
              ELSE xs[i] * PITCH_LENGTH],
          [i \in 1..Len(ys) |-> IF IsNaN(ys[i]) THEN NaN
              ELSE ys[i] * PITCH_WIDTH]>>
    ELSE IF source = "0_100" THEN to_pitch_meters_0_100(xs, ys)
    ELSE <<xs, ys>>

to_pitch_metersMutFallsToPercent(xs, ys, source) ==
    IF source = "skillcorner" THEN <<xs, ys>>
    ELSE IF source = "0_1" THEN
        <<[i \in 1..Len(xs) |-> IF IsNaN(xs[i]) THEN NaN
              ELSE xs[i] * PITCH_LENGTH - HALF_PITCH_LENGTH],
          [i \in 1..Len(ys) |-> IF IsNaN(ys[i]) THEN NaN
              ELSE ys[i] * PITCH_WIDTH - HALF_PITCH_WIDTH]>>
    ELSE to_pitch_meters_0_100(xs, ys)

to_pitch_meters(xs, ys, source) ==
    IF source = "skillcorner" THEN <<xs, ys>>
    ELSE IF source = "0_1" THEN
        <<[i \in 1..Len(xs) |-> IF IsNaN(xs[i]) THEN NaN
              ELSE xs[i] * PITCH_LENGTH - HALF_PITCH_LENGTH],
          [i \in 1..Len(ys) |-> IF IsNaN(ys[i]) THEN NaN
              ELSE ys[i] * PITCH_WIDTH - HALF_PITCH_WIDTH]>>
    ELSE IF source = "0_100" THEN to_pitch_meters_0_100(xs, ys)
    ELSE <<xs, ys>>

InferSystemMutNoMinGuard(xs, ys) ==
    LET max_x == SetMax(Valid(xs))
        max_y == SetMax(Valid(ys))
    IN IF max_x <= 1500 /\ max_y <= 1500 THEN "0_1"
       ELSE IF max_x <= 110000 /\ max_y <= 110000 THEN "0_100"
       ELSE "skillcorner_meters"

\* the classification of infer_and_scale_coordinates, for inputs with a
\* non-missing x and a non-missing y
InferSystem(xs, ys) ==
    LET min_x == SetMin(Valid(xs))
        max_x == SetMax(Valid(xs))
        min_y == SetMin(Valid(ys))
        max_y == SetMax(Valid(ys))
    IN IF max_x <= 1500 /\ max_y <= 1500 /\ min_x >= 0 /\ min_y >= 0
       THEN "0_1"
       ELSE IF /\ max_x <= 110000 /\ max_y <= 110000
               /\ (max_x > 1500 \/ max_y > 1500)
               /\ min_x >= -1000 /\ min_y >= -1000
       THEN "0_100"
       ELSE "skillcorner_meters"

\* validate_coordinate_bounds: the warning it logs, if any (tolerance 5.0);
\* np.nanmax of an all-missing array is nan, and nan > limit is False
BoundsWarnings(xs, ys) ==
    LET limit_x == HALF_PITCH_LENGTH + 5000
        limit_y == HALF_PITCH_WIDTH + 5000
    IN IF \/ \E v \in Valid(xs) : Abs(v) > limit_x
          \/ \E v \in Valid(ys) : Abs(v) > limit_y
       THEN {[kind |-> "bounds"]} ELSE {}

infer_and_scale_coordinates ==
    /\ "infer" \notin returned /\ "infer_raised" \notin returned
    /\ IF Valid(x) = {}
       THEN /\ x_scaled' = x /\ y_scaled' = y /\ scale_system' = "empty"
            /\ returned' = returned \cup {"infer"}
            /\ log' = log
       ELSE IF Valid(y) = {}
       THEN \* np.min of the empty y_valid raises ValueError
            /\ returned' = returned \cup {"infer_raised"}
            /\ UNCHANGED <<x_scaled, y_scaled, scale_system, log>>
       ELSE LET sys == InferSystem(x, y)
                out == to_pitch_meters(x, y, sys)
            IN /\ x_scaled' = out[1] /\ y_scaled' = out[2]
               /\ scale_system' = sys
               /\ log' = log \cup BoundsWarnings(out[1], out[2])
               /\ returned' = returned \cup {"infer"}
    /\ UNCHANGED <<source_type, x_m, y_m>>
    /\ UNCHANGED <<clockVars, fps, arrayVars, smoothVars>>
    /\ UNCHANGED <<frames, min_detection_rate, df, speed_ms, positions,
                   filtered>>

\* the tags to_pitch_meters is called with: its three documented ones, the
\* tag of the pitch-meters branch of infer_and_scale_coordinates and the
\* name of the canonical system
SourceTypes == {"skillcorner", "0_1", "0_100", "skillcorner_meters",
                "pitch_meters"}

\* a direct call to_pitch_meters(x, y, source_type)
to_pitch_meters_call ==
    /\ "to_pitch_meters" \notin returned
    /\ \E source \in SourceTypes :
          LET out == to_pitch_meters(x, y, source)
          IN /\ source_type' = source
             /\ x_m' = out[1] /\ y_m' = out[2]
    /\ returned' = returned \cup {"to_pitch_meters"}
    /\ UNCHANGED <<x_scaled, y_scaled, scale_system>>
    /\ UNCHANGED <<clockVars, fps, arrayVars, smoothVars, trackVars>>

InitCoord ==
    /\ returned = {}
    /\ \E n \in 0..MaxCoordLen :
          /\ x \in [1..n -> XValues]
          /\ y \in [1..n -> YValues]
    /\ timestamps = <<>> /\ metrics = <<>>
    /\ fps = 10
    /\ ClockIdle /\ CoordIdle /\ SmoothIdle /\ TrackIdle

NextCoord == infer_and_scale_coordinates \/ to_pitch_meters_call

SpecCoord == InitCoord /\ [][NextCoord]_vars

MaxAbs(S) == SetMax({Abs(v) : v \in S})

C16_Rescale ==
    ("to_pitch_meters" \in returned) =>
        /\ Len(x_m) = Len(x) /\ Len(y_m) = Len(y)
        /\ source_type = "0_1" =>
              /\ \A i \in 1..Len(x) : ~IsNaN(x[i]) =>
                     x_m[i] = x[i] * 105 - 52500
              /\ \A i \in 1..Len(y) : ~IsNaN(y[i]) =>
                     y_m[i] = y[i] * 68 - 34000
        /\ source_type = "0_100" =>
              /\ \A i \in 1..Len(x) : ~IsNaN(x[i]) =>
                     x_m[i] = (x[i] * 105) \div 100 - 52500
              /\ \A i \in 1..Len(y) : ~IsNaN(y[i]) =>
                     y_m[i] = (y[i] * 68) \div 100 - 34000
        /\ source_type = "pitch_meters" => (x_m = x /\ y_m = y)

\* a unit-square track with a value on the far touchline has been mapped
C16_Witness ==
    /\ "to_pitch_meters" \in returned
    /\ source_type = "0_1"
    /\ \E i \in 1..Len(x) : x[i] = 1000 /\ x_m[i] = 52500
    /\ \E i \in 1..Len(y) : y[i] = 0 /\ y_m[i] = -34000

\* C17: for every input with max|x| <= 1 and max|y| <= 1 (negative values
\* included) the returned coordinates satisfy max|x_out| <= 52.5 and
\* max|y_out| <= 34.
C17_UnitInputStaysOnPitch ==
    ( /\ "infer" \in returned
      /\ \A v \in Valid(x) : Abs(v) <= 1000
      /\ \A v \in Valid(y) : Abs(v) <= 1000 )
    => /\ \A v \in Valid(x_scaled) : Abs(v) <= HALF_PITCH_LENGTH
       /\ \A v \in Valid(y_scaled) : Abs(v) <= HALF_PITCH_WIDTH

\* a unit-square track that touches both far lines has been rescaled onto
\* the edge of the pitch
C17_Witness ==
    /\ "infer" \in returned
    /\ scale_system = "0_1"
    /\ \A v \in Valid(x) : Abs(v) <= 1000
    /\ \A v \in Valid(y) : Abs(v) <= 1000
    /\ HALF_PITCH_LENGTH \in Valid(x_scaled)
    /\ HALF_PITCH_WIDTH \in Valid(y_scaled)

\* C18: an input whose values are all missing, in x, in y or in both, is
\* returned unchanged with the tag "empty", and the call does not raise.
C18_AllMissingIsEmpty ==
    (Valid(x) = {} \/ Valid(y) = {}) =>
        /\ "infer_raised" \notin returned
        /\ "infer" \in returned =>
               (scale_system = "empty" /\ x_scaled = x /\ y_scaled = y)

InPitch(xs, ys) ==
    /\ \A v \in Valid(xs) : Abs(v) <= HALF_PITCH_LENGTH
    /\ \A v \in Valid(ys) : Abs(v) <= HALF_PITCH_WIDTH

----------------------------------------------------------------------------
(* Distance & Speed-Zone Aggregator: src/src/preprocessing/features.py     *)
(* and calculate_velocity of src/src/utils/physics.py.                     *)
(* Positions in mm, speeds in thousandths of a km/h.                       *)

MaxTrackLen == 3

PosXValues == {0, 500, 1100, 1800, 6800, NaN}

PosYValues == {0, 1200}

\* time between consecutive frames of a track (ms): regular, and across
\* the one gap a track may hold
TrackDeltas == [frame |-> 100, gap |-> 2000]

MAX_STEP_DISTANCE == 5000

\* np.diff
Diff(a) == [i \in 1..(Len(a) - 1) |->
               IF IsNaN(a[i]) \/ IsNaN(a[i + 1]) THEN NaN
               ELSE a[i + 1] - a[i]]

\* np.sqrt(dx**2 + dy**2)
Hypot(dxs, dys) == [i \in 1..Len(dxs) |->
                       IF IsNaN(dxs[i]) \/ IsNaN(dys[i]) THEN NaN
                       ELSE Sqrt(dxs[i] * dxs[i] + dys[i] * dys[i])]

\* calculate_velocity(x, y, fps=fps, unit='km/h') without timestamps:
\* sqrt(dx^2 + dy^2) / (1 / fps) * 3.6
calculate_velocity_kmhMutMetersPerSecond(xs, ys, rate) ==
    LET d == Hypot(Diff(xs), Diff(ys))
    IN [i \in 1..Len(d) |-> IF IsNaN(d[i]) THEN NaN ELSE d[i] * rate]

calculate_velocity_kmh(xs, ys, rate) ==
    LET d == Hypot(Diff(xs), Diff(ys))
    IN [i \in 1..Len(d) |-> IF IsNaN(d[i]) THEN NaN
                            ELSE (d[i] * rate * 36) \div 10]

ValidStepMutNoScreen(d) == ~IsNaN(d)

\* valid_mask = segment_distances <= MAX_STEP_DISTANCE (False for nan)
ValidStep(d) == ~IsNaN(d) /\ d <= MAX_STEP_DISTANCE

HsrStepMutBand(v, valid) == ~IsNaN(v) /\ v > 20000 /\ v <= 25000 /\ valid

\* hsr_mask = (velocity_kmh > 20.0) & valid_mask
HsrStep(v, valid) == ~IsNaN(v) /\ v > 20000 /\ valid

\* sprint_mask = (velocity_kmh > 25.0) & valid_mask
SprintStep(v, valid) == ~IsNaN(v) /\ v > 25000 /\ valid

ScreenedSpeedMutNoLimit(v) == ~IsNaN(v)

\* velocity_kmh <= 38.0 (False for nan)
ScreenedSpeed(v) == ~IsNaN(v) /\ v <= 38000

MeanSpeedMutNoGuard(valid_velocities) ==
    IF Len(valid_velocities) > 0
    THEN SeqSum(valid_velocities) \div Len(valid_velocities)
    ELSE NaN

\* lines 47-52: np.mean of the screened speeds, 0.0 when there are none
MeanSpeed(valid_velocities) ==
    IF Len(valid_velocities) > 0
    THEN SeqSum(valid_velocities) \div Len(valid_velocities)
    ELSE 0

DistanceMetrics(xs, ys, rate) ==
    LET velocity_kmh == calculate_velocity_kmh(xs, ys, rate)
        segment_distances == Hypot(Diff(xs), Diff(ys))
        n == Len(segment_distances)
        valid_mask == [i \in 1..n |-> ValidStep(segment_distances[i])]
        filtered_distances ==
            [i \in 1..n |-> IF valid_mask[i] THEN segment_distances[i] ELSE 0]
        sprint_mask ==
            [i \in 1..n |-> SprintStep(velocity_kmh[i], valid_mask[i])]
        hsr_mask == [i \in 1..n |-> HsrStep(velocity_kmh[i], valid_mask[i])]
        screened == [i \in 1..n |-> ScreenedSpeed(velocity_kmh[i])]
        valid_velocities == SelectMask(velocity_kmh, screened, 1)
    IN [total_distance |-> SeqSum(filtered_distances),
        sprint_distance |-> SeqSum(SelectMask(filtered_distances, sprint_mask, 1)),
        hsr_distance |-> SeqSum(SelectMask(filtered_distances, hsr_mask, 1)),
        max_speed |-> IF Len(valid_velocities) > 0
                      THEN SetMax({valid_velocities[i] :
                                      i \in 1..Len(valid_velocities)})
                      ELSE 0,
        avg_speed |-> MeanSpeed(valid_velocities)]

\* the call of pages/2_Player_Analysis.py: only the positions and the
\* default fps are handed over, the track's timestamps are not
calculate_distance_metrics ==
    /\ "metrics" \notin returned
    /\ metrics' = DistanceMetrics(x, y, fps)
    /\ returned' = returned \cup {"metrics"}
    /\ UNCHANGED <<x, y, timestamps, fps>>
    /\ UNCHANGED <<clockVars, coordVars, smoothVars, trackVars>>

\* timestamps that start at 0 and advance by the given deltas
RECURSIVE Cumulate(_, _)
Cumulate(t0, deltas) ==
    IF deltas = <<>> THEN <<t0>>
    ELSE <<t0>> \o Cumulate(t0 + Head(deltas), Tail(deltas))

\* a track of 20 samples, 0.1 s apart, moving east at a constant 5 m/s
ConstantSpeedTrack ==
    [x |-> [i \in 1..20 |-> (i - 1) * 500],
     y |-> [i \in 1..20 |-> 0],
     timestamps |-> Cumulate(0, [i \in 1..19 |-> TrackDeltas.frame])]

InitDist ==
    /\ returned = {}
    /\ \/ \E n \in 0..MaxTrackLen :
             /\ x \in [1..n -> PosXValues]
             /\ y \in [1..n -> PosYValues]
             /\ IF n = 0 THEN timestamps = <<>>
                ELSE \E g \in 0..(n - 1) :
                        timestamps = Cumulate(0,
                            [i \in 1..(n - 1) |->
                                IF i = g THEN TrackDeltas.gap
                                ELSE TrackDeltas.frame])
       \/ /\ x = ConstantSpeedTrack.x
          /\ y = ConstantSpeedTrack.y
          /\ timestamps = ConstantSpeedTrack.timestamps
    /\ fps \in FpsValues
    /\ metrics = <<>>
    /\ ClockIdle /\ CoordIdle /\ SmoothIdle /\ TrackIdle

NextDist == calculate_distance_metrics

SpecDist == InitDist /\ [][NextDist]_vars

Steps == 1..(Len(x) - 1)

HasPos(i) == ~IsNaN(x[i])

\* the squared length of step i, and its length
StepSq(i) == (x[i + 1] - x[i]) * (x[i + 1] - x[i])
               + (y[i + 1] - y[i]) * (y[i + 1] - y[i])

StepKmh(i) == (Sqrt(StepSq(i)) * fps * 36) \div 10

\* the sum of f[i] over the indices i of S
RECURSIVE SumOver(_, _)
SumOver(S, f) ==
    IF S = {} THEN 0
    ELSE LET i == CHOOSE k \in S : TRUE
         IN f[i] + SumOver(S \ {i}, f)

ShortSteps == {i \in Steps : HasPos(i) /\ HasPos(i + 1)
                               /\ StepSq(i) <= 5000 * 5000}

StepLen == [i \in ShortSteps |-> Sqrt(StepSq(i))]

GapSteps == {i \in Steps : timestamps[i + 1] - timestamps[i] > 200}

\* C8: a displacement step that spans a time gap (> 0.2 s) contributes
\* nothing to total_distance, hsr_distance and sprint_distance.
C8_GapStepExcluded ==
    ("metrics" \in returned) =>
        /\ metrics.total_distance = SumOver(ShortSteps \ GapSteps, StepLen)
        /\ metrics.hsr_distance =
               SumOver({i \in ShortSteps \ GapSteps : StepKmh(i) > 20000},
                       StepLen)
        /\ metrics.sprint_distance =
               SumOver({i \in ShortSteps \ GapSteps : StepKmh(i) > 25000},
                       StepLen)

\* C9: total_distance is the sum of exactly the steps of at most 5.0 m; a
\* longer step contributes zero to total_distance, hsr_distance and
\* sprint_distance.
C9_LongStepsDiscarded ==
    ("metrics" \in returned) =>
        /\ metrics.total_distance = SumOver(ShortSteps, StepLen)
        /\ metrics.hsr_distance =
               SumOver({i \in ShortSteps : StepKmh(i) > 20000}, StepLen)
        /\ metrics.sprint_distance =
               SumOver({i \in ShortSteps : StepKmh(i) > 25000}, StepLen)

\* a track with a step of exactly 5.0 m (counted) and a longer one (dropped)
C9_Witness ==
    /\ "metrics" \in returned
    /\ \E i \in Steps : HasPos(i) /\ HasPos(i + 1) /\ Sqrt(StepSq(i)) = 5000
    /\ \E i \in Steps : HasPos(i) /\ HasPos(i + 1) /\ Sqrt(StepSq(i)) > 5000
    /\ metrics.total_distance = 5000

\* C10: 0 <= sprint_distance <= hsr_distance <= total_distance.
C10_ZonesNested ==
    ("metrics" \in returned) =>
        /\ 0 <= metrics.sprint_distance
        /\ metrics.sprint_distance <= metrics.hsr_distance
        /\ metrics.hsr_distance <= metrics.total_distance

\* a track with a sprint step, an HSR-only step or a slower step
C10_Witness ==
    /\ "metrics" \in returned
    /\ 0 < metrics.sprint_distance
    /\ metrics.sprint_distance < metrics.hsr_distance
    /\ metrics.hsr_distance <= metrics.total_distance

\* the steps whose speed is at most 38 km/h
SlowSteps == {i \in Steps : HasPos(i) /\ HasPos(i + 1)
                              /\ StepKmh(i) <= 38000}

StepSpeed == [i \in SlowSteps |-> StepKmh(i)]

\* C11: max_speed is the maximum and avg_speed the mean of exactly the
\* per-step speeds of at most 38 km/h, both 0 when there is none; so
\* max_speed <= 38 km/h and a faster step is left out of it.
C11_ScreenedSpeeds ==
    ("metrics" \in returned) =>
        /\ metrics.max_speed <= 38000
        /\ IF SlowSteps = {}
           THEN metrics.max_speed = 0 /\ metrics.avg_speed = 0
           ELSE /\ metrics.max_speed = SetMax({StepKmh(i) : i \in SlowSteps})
                /\ metrics.avg_speed =
                       SumOver(SlowSteps, StepSpeed) \div Cardinality(SlowSteps)

\* a track with a step faster than 38 km/h and a slower, moving one
C11_Witness ==
    /\ "metrics" \in returned
    /\ \E i \in Steps : HasPos(i) /\ HasPos(i + 1) /\ StepKmh(i) > 38000
    /\ metrics.max_speed > 0

\* C29: whenever sprint_distance is above 0 the reported max_speed exceeds
\* 25 km/h, and whenever hsr_distance is above 0 it exceeds 20 km/h.
C29_ZonesBelowPeak ==
    ("metrics" \in returned) =>
        /\ metrics.sprint_distance > 0 => metrics.max_speed > 25000
        /\ metrics.hsr_distance > 0 => metrics.max_speed > 20000

ZeroMetrics ==
    [total_distance |-> 0, sprint_distance |-> 0, hsr_distance |-> 0,
     max_speed |-> 0, avg_speed |-> 0]

\* a track without a measurable step: empty, one sample, or no position
DegenerateTrack == Len(x) <= 1 \/ \A i \in 1..Len(x) : IsNaN(x[i])

\* C23: for an empty track, a single-sample track or a track whose positions
\* are all missing, calculate_distance_metrics returns the five metrics all
\* equal to 0.
C23_DegenerateTrackIsZero ==
    ("metrics" \in returned /\ DegenerateTrack) => metrics = ZeroMetrics

\* a track of several samples, all of them missing, measured as zero
C23_Witness ==
    /\ "metrics" \in returned
    /\ Len(x) >= 2 /\ \A i \in 1..Len(x) : IsNaN(x[i])
    /\ metrics = ZeroMetrics

----------------------------------------------------------------------------
(* Gap-Aware Smoother: src/src/preprocessing/filters.py                    *)

MaxLen == 7

SMOOTHING_WINDOW_SIZE == 7

SMOOTHING_POLY_ORDER == 2

\* default of max_gap_seconds (0.2 s) in ms
MAX_GAP == 200

\* the window sizes the repository passes (the default and the 5 of
\* extract_player_data) and one that no filter can use
WindowValues == {0, 5, SMOOTHING_WINDOW_SIZE}

SeriesValues == {0, 1000}

\* pandas Series.interpolate(limit_direction='both') (linear by position):
\* inner runs of missing values are filled on the line between their
\* neighbours, leading and trailing runs with the nearest value; a series
\* without any value stays as it is
Interpolate(data) ==
    LET n == Len(data)
        known == {i \in 1..n : ~IsNaN(data[i])}
    IN IF known = {} THEN data
       ELSE [i \in 1..n |->
               IF i \in known THEN data[i]
               ELSE LET before == {k \in known : k < i}
                        after == {k \in known : k > i}
                    IN IF before = {} THEN data[SetMin(after)]
                       ELSE IF after = {} THEN data[SetMax(before)]
                       ELSE LET a == SetMax(before)
                                b == SetMin(after)
                            IN data[a] + ((data[b] - data[a]) * (i - a))
                                            \div (b - a)]

\* Savitzky-Golay weights for polynomial order 2: the least-squares
\* parabola through w equally spaced points t = -h..h, evaluated at t = a,
\* has weight SavgolNum(w, a, b) / SavgolDen(w) on the point at t = b
SavgolNum(w, a, b) ==
    CASE w = 3 -> 2 + 3 * a * b + (3 * a * a - 2) * (3 * b * b - 2)
      [] w = 5 -> 14 + 7 * a * b + 5 * (a * a - 2) * (b * b - 2)
      [] w = 7 -> 12 + 3 * a * b + (a * a - 4) * (b * b - 4)

SavgolDen(w) == CASE w = 3 -> 6 [] w = 5 -> 70 [] w = 7 -> 84

\* scipy.signal.savgol_filter(data, w, 2), mode='interp': the centre of
\* the window slides over the inner points; the first and last h points
\* are read off the parabola fitted to the first and last w points
SavgolFilter(data, w) ==
    LET n == Len(data)
        h == (w - 1) \div 2
    IN [i \in 1..n |->
          LET base == IF i <= h THEN 0
                      ELSE IF i > n - h THEN n - w
                      ELSE i - h - 1
              a == i - base - h - 1
          IN IF \E k \in 1..w : IsNaN(data[base + k]) THEN NaN
             ELSE SumTo([k \in 1..w |->
                            SavgolNum(w, a, k - h - 1) * data[base + k]], w)
                    \div SavgolDen(w)]

\* lines 83-85: the data as _safe_savgol hands it to savgol_filter
FilterInput(data) ==
    IF \E i \in 1..Len(data) : IsNaN(data[i])
    THEN Interpolate(data) ELSE data

SafeSavgolMutDropsMissing(data, window, order) ==
    SelectMask(data, [i \in 1..Len(data) |-> ~IsNaN(data[i])], 1)

\* _safe_savgol: scipy raises for a window longer than the data or not
\* longer than the order; the except clause then returns the data
SafeSavgol(data, window, order) ==
    LET filled == FilterInput(data)
        w == IF window % 2 = 0 THEN window + 1 ELSE window
    IN IF w > Len(filled) \/ order >= w \/ w \notin {3, 5, 7}
       THEN filled
       ELSE SavgolFilter(filled, w)

SplitIndicesMutNoGap(ts, max_gap) == {}

SplitIndicesMutInclusive(ts, max_gap) ==
    {i \in 2..Len(ts) : ts[i] - ts[i - 1] >= max_gap}

\* np.where(dt > max_gap_seconds)[0] with dt = np.diff(ts, prepend=ts[0]):
\* the (1-based) positions that start a new segment
SplitIndices(ts, max_gap) ==
    {i \in 2..Len(ts) : ts[i] - ts[i - 1] > max_gap}

\* the body of the loop over the segments
SmoothSegment(segment, window, order) ==
    IF Len(segment) > window THEN SafeSavgol(segment, window, order)
    ELSE IF Len(segment) > order + 2
    THEN LET odd == IF Len(segment) % 2 = 0 THEN Len(segment) + 1
                    ELSE Len(segment)
             w == IF odd = Len(segment) + 1 THEN odd - 2 ELSE odd
         IN IF w > order THEN SafeSavgol(segment, w, order) ELSE segment
    ELSE segment

\* the loop: the segments run from one boundary to the next
RECURSIVE SmoothFrom(_, _, _, _, _)
SmoothFrom(vals, start_idx, boundaries, window, order) ==
    IF boundaries = {} THEN <<>>
    ELSE LET end_idx == SetMin(boundaries)
             segment == SubSeq(vals, start_idx, end_idx - 1)
         IN SmoothSegment(segment, window, order)
              \o SmoothFrom(vals, end_idx, boundaries \ {end_idx},
                            window, order)

GapAwareSmoothing(vals, ts, max_gap, window, order) ==
    IF Len(vals) < window THEN vals
    ELSE LET split_indices == SplitIndices(ts, max_gap)
         IN IF split_indices = {} THEN SafeSavgol(vals, window, order)
            ELSE SmoothFrom(vals, 1, split_indices \cup {Len(vals) + 1},
                            window, order)

\* for an empty series a window above 0 takes the early return; otherwise
\* np.diff(ts, prepend=ts[0]) raises IndexError on the empty timestamps
apply_gap_aware_smoothing ==
    /\ "smooth" \notin returned /\ "smooth_raised" \notin returned
    /\ IF Len(series) = 0 /\ ~(Len(series) < window_size)
       THEN /\ smoothed' = smoothed
            /\ returned' = returned \cup {"smooth_raised"}
       ELSE /\ smoothed' = GapAwareSmoothing(series, timestamps, MAX_GAP,
                                             window_size, SMOOTHING_POLY_ORDER)
            /\ returned' = returned \cup {"smooth"}
    /\ UNCHANGED <<series, window_size, arrayVars, fps>>
    /\ UNCHANGED <<clockVars, coordVars, trackVars>>

\* the series: values of SeriesValues with at most one run of missing
\* values; the timestamps: 0.1 s apart with at most two gaps of 2.0 s, or
\* with one delta of exactly max_gap_seconds
InitSmooth ==
    /\ returned = {}
    /\ \/ series = <<>> /\ timestamps = <<>>
       \/ \E n \in 1..MaxLen :
          /\ \E lo \in 1..(n + 1) : \E hi \in (lo - 1)..n :
                \E v \in [(1..n) \ (lo..hi) -> SeriesValues] :
                    series = [i \in 1..n |->
                                 IF lo <= i /\ i <= hi THEN NaN ELSE v[i]]
          /\ \E g1 \in 1..n : \E g2 \in g1..n :
                \E delta \in IF g1 = g2 THEN {2000, MAX_GAP} ELSE {2000} :
                   timestamps =
                       Cumulate(0, [i \in 1..(n - 1) |->
                                      IF i + 1 \in {g1, g2} THEN delta
                                      ELSE 100])
    /\ window_size \in WindowValues
    /\ smoothed = <<>>
    /\ x = <<>> /\ y = <<>> /\ metrics = <<>>
    /\ fps = 10
    /\ ClockIdle /\ CoordIdle /\ TrackIdle

NextSmooth == apply_gap_aware_smoothing

SpecSmooth == InitSmooth /\ [][NextSmooth]_vars

\* the positions whose time delta to the previous sample exceeds 0.2 s
GapPositions ==
    {g \in 2..Len(timestamps) : timestamps[g] - timestamps[g - 1] > MAX_GAP}

\* another input value for a sample: the next value of SeriesValues, the
\* missing value after the largest, the smallest after the missing value
\* (three steps lead through every value)
Perturb(v) ==
    IF IsNaN(v) THEN SetMin(SeriesValues)
    ELSE IF v = SetMax(SeriesValues) THEN NaN
    ELSE SetMin({u \in SeriesValues : u > v})

\* the same call on the series with the value at position k changed
SmoothedWith(k) ==
    GapAwareSmoothing([series EXCEPT ![k] = Perturb(series[k])], timestamps,
                      MAX_GAP, window_size, SMOOTHING_POLY_ORDER)

\* C1: changing an input value (to another value or to a missing value) on
\* one side of a gap leaves every output sample on the other side of that
\* gap identical.  (For a change at position k it is enough to look at the
\* nearest gap on either side of k: the samples beyond a farther gap lie
\* beyond the nearest one too.)
C1_GapIsolation ==
    ("smooth" \in returned /\ GapPositions # {}) =>
        \A k \in 1..Len(series) :
            LET later == {g \in GapPositions : k < g}
                earlier == {g \in GapPositions : g <= k}
            IN /\ later # {} =>
                     SubSeq(SmoothedWith(k), SetMin(later), Len(series))
                       = SubSeq(smoothed, SetMin(later), Len(series))
               /\ earlier # {} =>
                     SubSeq(SmoothedWith(k), 1, SetMax(earlier) - 1)
                       = SubSeq(smoothed, 1, SetMax(earlier) - 1)

\* a series with a gap whose first segment holds a missing value and whose
\* second segment was changed by the filter
C1_Witness ==
    /\ "smooth" \in returned
    /\ \E g \in GapPositions :
          /\ \E k \in 1..(g - 1) : IsNaN(series[k])
          /\ \E i \in g..Len(series) : smoothed[i] # series[i]

\* the arrays handed to savgol_filter for one segment of the loop
SegmentFilterCalls(segment, window, order) ==
    IF Len(segment) > window THEN {FilterInput(segment)}
    ELSE IF Len(segment) > order + 2
    THEN LET odd == IF Len(segment) % 2 = 0 THEN Len(segment) + 1
                    ELSE Len(segment)
             w == IF odd = Len(segment) + 1 THEN odd - 2 ELSE odd
         IN IF w > order THEN {FilterInput(segment)} ELSE {}
    ELSE {}

RECURSIVE FilterCallsFrom(_, _, _, _, _)
FilterCallsFrom(vals, start_idx, boundaries, window, order) ==
    IF boundaries = {} THEN {}
    ELSE LET end_idx == SetMin(boundaries)
             segment == SubSeq(vals, start_idx, end_idx - 1)
         IN SegmentFilterCalls(segment, window, order)
              \cup FilterCallsFrom(vals, end_idx, boundaries \ {end_idx},
                                   window, order)

\* the arrays handed to savgol_filter during one call of
\* apply_gap_aware_smoothing
FilterCalls(vals, ts, max_gap, window, order) ==
    IF Len(vals) < window THEN {}
    ELSE LET split_indices == SplitIndices(ts, max_gap)
         IN IF split_indices = {} THEN {FilterInput(vals)}
            ELSE FilterCallsFrom(vals, 1,
                                 split_indices \cup {Len(vals) + 1},
                                 window, order)

\* C26: whenever the polynomial filter is applied to a segment, the data
\* handed to it holds no missing value: every missing entry has been
\* replaced by interpolation.
C26_FilterSeesNoMissing ==
    ("smooth" \in returned) =>
        \A data \in FilterCalls(series, timestamps, MAX_GAP, window_size,
                                SMOOTHING_POLY_ORDER) :
            \A i \in 1..Len(data) : ~IsNaN(data[i])

\* the segments as pairs <<first, last>>
SegmentsOfSeries ==
    LET starts == {1} \cup GapPositions
    IN {<<a, SetMin({g - 1 : g \in {h \in GapPositions : h > a}}
                      \cup {Len(series)})>> : a \in starts}

LargestOddUpTo(n) == IF n % 2 = 1 THEN n ELSE n - 1

\* C3: (for a window W above the order P) every segment (a series without
\* a gap is one segment) of length L is filtered with window W if L > W,
\* with the largest odd window <= L if P+2 < L <= W, and copied through if
\* L <= P+2.
C3_TieredFallback ==
    ("smooth" \in returned /\ window_size > SMOOTHING_POLY_ORDER) =>
        \A sg \in SegmentsOfSeries :
            LET seg == SubSeq(series, sg[1], sg[2])
                L == Len(seg)
                W == window_size
                P == SMOOTHING_POLY_ORDER
            IN SubSeq(smoothed, sg[1], sg[2]) =
                  IF L > W THEN SavgolFilter(Interpolate(seg), W)
                  ELSE IF L > P + 2
                  THEN SavgolFilter(Interpolate(seg), LargestOddUpTo(L))
                  ELSE seg

\* the result of smoothing every segment of SegmentsOfSeries on its own
RECURSIVE SegmentwiseFrom(_)
SegmentwiseFrom(a) ==
    IF a > Len(series) THEN <<>>
    ELSE LET b == SetMin({g - 1 : g \in {h \in GapPositions : h > a}}
                           \cup {Len(series)})
         IN SmoothSegment(SubSeq(series, a, b), window_size,
                          SMOOTHING_POLY_ORDER)
              \o SegmentwiseFrom(b + 1)

\* C13: the series is cut exactly at the positions whose time delta to
\* the previous sample is strictly greater than max_gap_seconds (a delta
\* equal to it does not cut), that sample starting the new segment: a
\* series of at least window_size samples comes back filtered as a whole
\* when no delta is greater, and segment by segment otherwise.
C13_CutsAtStrictGaps ==
    ("smooth" \in returned /\ Len(series) >= window_size) =>
        smoothed =
            IF \A i \in 2..Len(timestamps) :
                   timestamps[i] - timestamps[i - 1] <= MAX_GAP
            THEN SafeSavgol(series, window_size, SMOOTHING_POLY_ORDER)
            ELSE SegmentwiseFrom(1)

\* a series with a delta of exactly max_gap_seconds that the filter has
\* changed on both sides of that delta
C13_Witness ==
    /\ "smooth" \in returned
    /\ \E i \in 3..(Len(timestamps) - 1) :
          /\ timestamps[i] - timestamps[i - 1] = MAX_GAP
          /\ smoothed[i - 1] # series[i - 1]
          /\ smoothed[i] # series[i]
          /\ smoothed # SmoothSegment(SubSeq(series, 1, i - 1), window_size,
                                      SMOOTHING_POLY_ORDER)
                          \o SmoothSegment(SubSeq(series, i, Len(series)),
                                           window_size, SMOOTHING_POLY_ORDER)

\* C12: the returned series has exactly the length of the input: for a
\* series shorter than the window, with or without gaps, with missing
\* values, and when the filter fails.
C12_LengthPreserved ==
    ("smooth" \in returned) => Len(smoothed) = Len(series)

\* a series with a gap and a missing value, smoothed with a window the
\* filter rejects
C12_Witness ==
    /\ "smooth" \in returned
    /\ window_size <= SMOOTHING_POLY_ORDER
    /\ GapPositions # {}
    /\ \E k \in 1..Len(series) : IsNaN(series[k])
    /\ \E k \in 1..Len(series) : ~IsNaN(smoothed[k]) /\ IsNaN(series[k])

\* C20: a call with an invalid numeric configuration (window_size <= 0,
\* or a window the filter cannot use with the order) raises instead of
\* returning a result.
C20_InvalidConfigRaises ==
    LET w == IF window_size % 2 = 0 THEN window_size + 1 ELSE window_size
    IN (window_size <= 0 \/ w <= SMOOTHING_POLY_ORDER) =>
           "smooth" \notin returned

\* the largest change the smoother makes to a sample of the track handed
\* to calculate_distance_metrics (the page hands over smoothed positions)
EdgeEffect ==
    LET x_smooth == GapAwareSmoothing(x, timestamps, MAX_GAP,
                        SMOOTHING_WINDOW_SIZE, SMOOTHING_POLY_ORDER)
    IN SetMax({Abs(x_smooth[i] - x[i]) : i \in 1..Len(x)} \cup {0})

ConstantSpeedCase ==
    /\ "metrics" \in returned
    /\ x = ConstantSpeedTrack.x /\ y = ConstantSpeedTrack.y
    /\ fps = 10

\* C27 as stated: for the track of 20 samples at 0.1 s spacing moving east
\* at a constant 5 m/s, measured at 10 fps, total_distance is 20 * 0.1 * 5 =
\* 10.0 m up to what smoothing changes at the two ends of the track, sprint
\* and high-speed-running distance are 0 and max_speed is 18 km/h.
C27_ClaimedTenMeters ==
    ConstantSpeedCase =>
        /\ Abs(metrics.total_distance - 10000) <= 2 * EdgeEffect
        /\ metrics.sprint_distance = 0 /\ metrics.hsr_distance = 0
        /\ metrics.max_speed = 18000

\* C27 (amended): for that track total_distance is the length of its 19
\* steps of 0.5 m, 9.5 m, which smoothing does not change; sprint and
\* high-speed-running distance are 0 and max_speed is 18 km/h.
C27_ConstantSpeedMetrics ==
    ConstantSpeedCase =>
        /\ EdgeEffect = 0
        /\ metrics.total_distance = 9500
        /\ metrics.sprint_distance = 0 /\ metrics.hsr_distance = 0
        /\ metrics.max_speed = 18000

C27_Witness ==
    /\ ConstantSpeedCase
    /\ Len(x) = 20
    /\ metrics.total_distance = 9500

----------------------------------------------------------------------------
(* extract_player_data: src/src/preprocessing/data.py                      *)
(* Raw coordinates in thousandths of their unit (mm for a track in         *)
(* meters), timestamps in ms, speeds in mm/s, velocity_kmh in thousandths  *)
(* of a km/h, min_detection_rate per mille.                                *)

MaxFrames == 6

MAX_VELOCITY_KMH == 42000

VELOCITY_ANOMALY_THRESHOLD == 45000

\* a track in meters and a track in the unit square
XMeterValues == {0, 2400}

XUnitValues == {0, 10}

MinDetectionRates == {950, 500}

\* df.sort_values('timestamp'): the default sort is not stable, rows with
\* equal timestamps come out in input order or reversed
RECURSIVE SortByTimestamp(_, _)
SortByTimestamp(recs, reversed_ties) ==
    IF recs = <<>> THEN <<>>
    ELSE LET front == SortByTimestamp(SubSeq(recs, 1, Len(recs) - 1),
                                      reversed_ties)
             r == recs[Len(recs)]
             before(q) == IF reversed_ties THEN q.timestamp < r.timestamp
                          ELSE q.timestamp <= r.timestamp
             k == Cardinality({i \in 1..Len(front) : before(front[i])})
         IN SubSeq(front, 1, k) \o <<r>> \o SubSeq(front, k + 1, Len(front))

\* drop_duplicates(subset=['timestamp'], keep='first')
DropDuplicates(recs) ==
    SelectMask(recs,
               [i \in 1..Len(recs) |->
                   \A j \in 1..(i - 1) : recs[j].timestamp # recs[i].timestamp],
               1)

\* ascending insertion sort of a sequence of numbers
RECURSIVE SortNumbers(_)
SortNumbers(a) ==
    IF a = <<>> THEN <<>>
    ELSE LET front == SortNumbers(SubSeq(a, 1, Len(a) - 1))
             v == a[Len(a)]
             k == Cardinality({i \in 1..Len(front) : front[i] <= v})
         IN SubSeq(front, 1, k) \o <<v>> \o SubSeq(front, k + 1, Len(front))

NonMissing(a) == SelectMask(a, [i \in 1..Len(a) |-> ~IsNaN(a[i])], 1)

\* Series.quantile(0.99): linear interpolation between the order
\* statistics of the non-missing values; nan without any value
Quantile99(a) ==
    LET v == SortNumbers(NonMissing(a))
        m == Len(v)
        lo == ((m - 1) * 99) \div 100
        fr == ((m - 1) * 99) % 100
    IN IF m = 0 THEN NaN
       ELSE IF lo + 2 > m THEN v[lo + 1]
       ELSE v[lo + 1] + ((v[lo + 2] - v[lo + 1]) * fr) \div 100

\* np.nanmedian
NanMedian(a) ==
    LET v == SortNumbers(NonMissing(a))
        m == Len(v)
    IN IF m = 0 THEN NaN
       ELSE IF m % 2 = 1 THEN v[(m + 1) \div 2]
       ELSE (v[m \div 2] + v[m \div 2 + 1]) \div 2

\* np.gradient(t): unit spacing
GradientUnit(t) ==
    LET n == Len(t)
    IN [i \in 1..n |->
           IF i = 1 THEN t[2] - t[1]
           ELSE IF i = n THEN t[n] - t[n - 1]
           ELSE (t[i + 1] - t[i - 1]) \div 2]

\* np.gradient(f, t) in units of f per second (t in ms): one-sided
\* differences at the ends, inside the second-order formula for uneven
\* spacing  (hs^2 f[i+1] + (hd^2 - hs^2) f[i] - hd^2 f[i-1])
\*             / (hs hd (hs + hd)),  hs = t[i] - t[i-1], hd = t[i+1] - t[i]
Gradient(f, t) ==
    LET n == Len(f)
    IN [i \in 1..n |->
           IF i = 1 THEN
               IF IsNaN(f[1]) \/ IsNaN(f[2]) THEN NaN
               ELSE ((f[2] - f[1]) * 1000) \div (t[2] - t[1])
           ELSE IF i = n THEN
               IF IsNaN(f[n]) \/ IsNaN(f[n - 1]) THEN NaN
               ELSE ((f[n] - f[n - 1]) * 1000) \div (t[n] - t[n - 1])
           ELSE IF IsNaN(f[i - 1]) \/ IsNaN(f[i]) \/ IsNaN(f[i + 1]) THEN NaN
           ELSE LET hs == t[i] - t[i - 1]
                    hd == t[i + 1] - t[i]
                IN ((((f[i + 1] - f[i]) * hs) \div hd
                      + ((f[i] - f[i - 1]) * hd) \div hs) * 1000)
                     \div (hs + hd)]

\* np.clip(speed_ms, 0, max_ms)
ClipSpeed(v, max_ms) ==
    IF IsNaN(v) THEN NaN ELSE Max2(0, Min2(v, max_ms))

\* lines 41-59: the records of the frames that hold the player, sorted by
\* timestamp and deduplicated
RawRecords(fr, reversed_ties) ==
    LET present == SelectMask(fr, [i \in 1..Len(fr) |-> fr[i].has], 1)
        recs == [i \in 1..Len(present) |->
                    [frame |-> present[i].frame_id,
                     timestamp |-> present[i].timestamp,
                     period |-> present[i].period,
                     x |-> present[i].x, y |-> present[i].y]]
    IN DropDuplicates(SortByTimestamp(recs, reversed_ties))

Column(recs, name) == [i \in 1..Len(recs) |-> recs[i][name]]

\* lines 61-74: the position columns
PositionColumns(recs) ==
    LET n == Len(recs)
        x_p99 == Quantile99(Column(recs, "x"))
        scale == n > 0 /\ ~IsNaN(x_p99) /\ x_p99 < 1200
        xs == [i \in 1..n |-> IF scale /\ ~IsNaN(recs[i].x)
                              THEN recs[i].x * 105 ELSE recs[i].x]
        ys == [i \in 1..n |-> IF scale /\ ~IsNaN(recs[i].y)
                              THEN recs[i].y * 68 ELSE recs[i].y]
        ts == Column(recs, "timestamp")
        smooth == n > 5
    IN [frame |-> Column(recs, "frame"),
        timestamp |-> ts,
        period |-> Column(recs, "period"),
        x |-> xs,
        y |-> ys,
        x_smooth |-> IF smooth
                     THEN GapAwareSmoothing(xs, ts, MAX_GAP,
                              SMOOTHING_WINDOW_SIZE, SMOOTHING_POLY_ORDER)
                     ELSE xs,
        y_smooth |-> IF smooth
                     THEN GapAwareSmoothing(ys, ts, MAX_GAP,
                              SMOOTHING_WINDOW_SIZE, SMOOTHING_POLY_ORDER)
                     ELSE ys]

\* lines 76-125: the speed columns (for more than one row)
SpeedColumns(pos) ==
    LET t == pos.timestamp
        n == Len(t)
        dt == GradientUnit(t)
        median_dt == NanMedian([i \in 1..n |-> IF dt[i] < 1 THEN NaN
                                               ELSE dt[i]])
        vx == Gradient(pos.x_smooth, t)
        vy == Gradient(pos.y_smooth, t)
        speed == [i \in 1..n |->
                        IF IsNaN(vx[i]) \/ IsNaN(vy[i]) THEN NaN
                        ELSE Sqrt(vx[i] * vx[i] + vy[i] * vy[i])]
        max_ms == (MAX_VELOCITY_KMH * 10) \div 36
        clipped == [i \in 1..n |-> ClipSpeed(speed[i], max_ms)]
        velocity == IF n > 5
                    THEN GapAwareSmoothing(clipped, t, MAX_GAP, 5, 2)
                    ELSE clipped
    IN [time_delta |-> [i \in 1..n |-> IF dt[i] < 1 THEN median_dt
                                       ELSE dt[i]],
        speed_unclamped |-> speed,
        velocity_raw |-> clipped,
        vx |-> vx,
        vy |-> vy,
        velocity |-> velocity,
        velocity_kmh |-> [i \in 1..n |-> IF IsNaN(velocity[i]) THEN NaN
                                         ELSE (velocity[i] * 36) \div 10]]

\* lines 127-137: the acceleration column (for more than two rows)
AccelerationColumn(t, velocity) ==
    LET accel == Gradient(velocity, t)
    IN IF Len(t) > 5 THEN GapAwareSmoothing(accel, t, MAX_GAP, 5, 2)
       ELSE accel

AnomalyWarningsMutAfterClip(speeds) ==
    LET anomaly_ms == (VELOCITY_ANOMALY_THRESHOLD * 10) \div 36
        max_ms == (MAX_VELOCITY_KMH * 10) \div 36
        over == {i \in 1..Len(speeds) :
                    ~IsNaN(speeds[i])
                      /\ ClipSpeed(speeds[i], max_ms) > anomaly_ms}
    IN IF over # {}
       THEN {[kind |-> "velocity_anomaly", count |-> Cardinality(over)]}
       ELSE {}

\* lines 107-109: the anomaly warning
AnomalyWarnings(speeds) ==
    LET anomaly_ms == (VELOCITY_ANOMALY_THRESHOLD * 10) \div 36
        over == {i \in 1..Len(speeds) :
                    ~IsNaN(speeds[i]) /\ speeds[i] > anomaly_ms}
    IN IF over # {}
       THEN {[kind |-> "velocity_anomaly", count |-> Cardinality(over)]}
       ELSE {}

\* the table before the detection filter (include_velocity and smooth at
\* their defaults, True)
KinematicTable(recs) ==
    LET pos == PositionColumns(recs)
        n == Len(recs)
        spd == SpeedColumns(pos)
    IN IF n > 2
       THEN pos @@ [c \in DOMAIN spd \ {"speed_unclamped"} |-> spd[c]]
                @@ [acceleration |->
                       AccelerationColumn(pos.timestamp, spd.velocity)]
       ELSE IF n > 1
       THEN pos @@ [c \in DOMAIN spd \ {"speed_unclamped"} |-> spd[c]]
       ELSE pos

\* lines 139-152: the detection-quality stage
DetectionFilter(table, rate) ==
    LET n == Len(table.timestamp)
        is_detected == [i \in 1..n |->
                           ~(IsNaN(table.x[i]) \/ IsNaN(table.y[i]))]
        with_flag == table @@ [is_detected |-> is_detected]
        detected == Cardinality({i \in 1..n : is_detected[i]})
        low == detected * 1000 < rate * n
        kept == [c \in DOMAIN with_flag |->
                    SelectMask(with_flag[c], is_detected, 1)]
    IN IF n > 0 /\ rate > 0
       THEN [table |-> IF low THEN kept ELSE with_flag,
             warnings |->
                 (IF low
                  THEN {[kind |-> "low_detection_rate",
                         detection_rate |-> (detected * 1000) \div n,
                         min_detection_rate |-> rate]}
                  ELSE {})
                 \cup (IF low /\ detected * 2 < n
                       THEN {[kind |-> "dropped_frames",
                              count |-> n - detected]}
                       ELSE {})]
       ELSE [table |-> table, warnings |-> {}]

extract_player_data ==
    /\ "extract" \notin returned
    /\ \E reversed_ties \in BOOLEAN :
          LET recs == RawRecords(frames, reversed_ties)
          IN IF recs = <<>>
             THEN /\ df' = <<>>
                  /\ speed_ms' = <<>>
                  /\ log' = log
             ELSE LET table == KinematicTable(recs)
                      out == DetectionFilter(table, min_detection_rate)
                  IN /\ df' = out.table
                     /\ speed_ms' =
                            IF Len(recs) > 1
                            THEN SpeedColumns(PositionColumns(recs))
                                   .speed_unclamped
                            ELSE <<>>
                     /\ log' = log \cup out.warnings
                          \cup (IF Len(recs) > 1
                                THEN AnomalyWarnings(speed_ms')
                                ELSE {})
    /\ returned' = returned \cup {"extract"}
    /\ UNCHANGED <<frames, min_detection_rate, fps, positions, filtered>>
    /\ UNCHANGED <<clockVars, coordVars, arrayVars, smoothVars>>

\* the input tracks: frames 0.1 s apart with values of one coordinate
\* system (a track in meters runs along y = 0, a track in the unit square
\* along y = x / 2), and at most one irregularity, at the first, a middle
\* or the last possible frame: a gap of 2.0 s, a repeated timestamp (within
\* the period or with a change of period), two frames out of order, a
\* sample without position, or a frame that does not hold the player
Irregularities == {"gap", "dup", "dup_period", "swap", "nan", "absent"}

TrackFrames(n, xv, half_y, kind, j) ==
    [i \in 1..n |->
        LET regular == (i - 1) * 100
            ts == IF kind = "gap" /\ i >= j THEN regular + 1900
                  ELSE IF kind \in {"dup", "dup_period"} /\ i = j
                  THEN regular - 100
                  ELSE IF kind = "swap" /\ i = j THEN regular - 100
                  ELSE IF kind = "swap" /\ i = j - 1 THEN regular + 100
                  ELSE regular
            missing == kind = "nan" /\ i = j
        IN [frame_id |-> i,
            timestamp |-> ts,
            period |-> IF kind = "dup_period" /\ i >= j THEN 2 ELSE 1,
            x |-> IF missing THEN NaN ELSE xv[i],
            y |-> IF missing THEN NaN
                  ELSE IF half_y THEN xv[i] \div 2 ELSE 0,
            has |-> ~(kind = "absent" /\ i = j)]]

IrregularityPositions(n, kind) ==
    LET first == IF kind \in {"nan", "absent"} THEN 1 ELSE 2
    IN {j \in {first, n \div 2 + 1, n} : first <= j /\ j <= n}

InitTrack ==
    /\ returned = {}
    /\ \E n \in 0..MaxFrames :
          \E half_y \in BOOLEAN :
             \E xv \in [1..n -> IF half_y THEN XUnitValues
                                ELSE XMeterValues] :
                \/ frames = TrackFrames(n, xv, half_y, "none", 0)
                \/ \E kind \in Irregularities :
                      \E j \in IrregularityPositions(n, kind) :
                         frames = TrackFrames(n, xv, half_y, kind, j)
    /\ min_detection_rate \in MinDetectionRates
    /\ df = <<>> /\ speed_ms = <<>> /\ log = {}
    /\ positions = <<>> /\ filtered = <<>>
    /\ fps = 10
    /\ ClockIdle /\ CoordIdle /\ ArraysIdle /\ SmoothIdle

NextTrack == extract_player_data

SpecTrack == InitTrack /\ [][NextTrack]_vars

HasColumn(name) == name \in DOMAIN df

\* C2: every reported speed value (velocity_raw, the re-smoothed velocity
\* and velocity_kmh) is at most 42.0 km/h.
C2_SpeedClamp ==
    ("extract" \in returned /\ HasColumn("velocity_kmh")) =>
        \A i \in 1..Len(df.velocity_kmh) :
            /\ ~IsNaN(df.velocity_raw[i]) =>
                   df.velocity_raw[i] * 36 <= MAX_VELOCITY_KMH * 10
            /\ ~IsNaN(df.velocity[i]) =>
                   df.velocity[i] * 36 <= MAX_VELOCITY_KMH * 10
            /\ ~IsNaN(df.velocity_kmh[i]) =>
                   df.velocity_kmh[i] <= MAX_VELOCITY_KMH

\* the frames that hold the player, by position in the dataset
PresentFrames == {i \in 1..Len(frames) : frames[i].has}

\* C15: the track has strictly increasing timestamps, and every sample of
\* the track is, among the input samples with its timestamp, the first in
\* input order.
C15_SortedFirstKept ==
    ("extract" \in returned /\ df # <<>>) =>
        /\ \A i \in 1..(Len(df.timestamp) - 1) :
               df.timestamp[i] < df.timestamp[i + 1]
        /\ \A i \in 1..Len(df.timestamp) :
               \E k \in PresentFrames :
                  /\ frames[k].frame_id = df.frame[i]
                  /\ frames[k].timestamp = df.timestamp[i]
                  /\ \A m \in PresentFrames :
                         frames[m].timestamp = df.timestamp[i] => k <= m

\* the number of samples of the track: one per timestamp (lines 58-59)
TrackLength == Cardinality({frames[k].timestamp : k \in PresentFrames})

KinematicColumns ==
    {"time_delta", "velocity_raw", "velocity", "velocity_kmh", "acceleration"}

\* C24: a track of 0 or 1 samples gives an output without any velocity,
\* speed or acceleration column; a track of 2 or more samples gives an output
\* with time_delta, raw speed, smoothed speed (m/s and km/h) and
\* acceleration, each with one entry per retained sample.
C24_KinematicColumns ==
    ("extract" \in returned) =>
        /\ TrackLength <= 1 => KinematicColumns \cap DOMAIN df = {}
        /\ TrackLength >= 2 =>
               /\ KinematicColumns \subseteq DOMAIN df
               /\ \A c \in KinematicColumns :
                      Len(df[c]) = Len(df.timestamp)

\* infer_and_scale_coordinates on the samples of the track, by frame (a
\* frame that does not hold the player contributes no sample)
NormalizedSamples ==
    LET xs == [k \in 1..Len(frames) |->
                  IF frames[k].has THEN frames[k].x ELSE NaN]
        ys == [k \in 1..Len(frames) |->
                  IF frames[k].has THEN frames[k].y ELSE NaN]
    IN IF Valid(xs) = {} THEN <<xs, ys>>
       ELSE to_pitch_meters(xs, ys, InferSystem(xs, ys))

\* C28: the coordinates with which a track enters smoothing are those that
\* infer_and_scale_coordinates returns for the same samples (for a track in
\* the unit square: x * 105 - 52.5, y * 68 - 34).
C28_NormalizerIsInference ==
    ("extract" \in returned /\ df # <<>>
        /\ TrackLength = Cardinality(PresentFrames)) =>
        \A i \in 1..Len(df.frame) :
            /\ df.x[i] = NormalizedSamples[1][df.frame[i]]
            /\ df.y[i] = NormalizedSamples[2][df.frame[i]]

\* the (period, timestamp) pairs of the input samples and of the output rows
InputKeys ==
    {<<frames[k].period, frames[k].timestamp>> : k \in PresentFrames}

OutputKeys ==
    IF df = <<>> THEN {}
    ELSE {<<df.period[i], df.timestamp[i]>> : i \in 1..Len(df.timestamp)}

\* C30: (for a track on which the detection-quality stage drops nothing)
\* the output holds exactly one row for every distinct (period, timestamp)
\* pair of the input, also when samples of different periods carry the same
\* timestamp.
C30_UniqueWithinPeriodKept ==
    ("extract" \in returned
        /\ \A k \in PresentFrames : ~IsNaN(frames[k].x)) =>
        /\ OutputKeys = InputKeys
        /\ df # <<>> => Len(df.timestamp) = Cardinality(InputKeys)

\* the samples removed by the detection-quality stage
DroppedSamples ==
    IF df = <<>> THEN 0 ELSE TrackLength - Len(df.timestamp)

\* C25: whenever samples are dropped for a low detection rate, a warning
\* carries the original sample count and the number dropped, and the
\* stronger warning is emitted exactly when fewer than half of the samples
\* remain.
C25_DropWarnings ==
    ("extract" \in returned /\ DroppedSamples > 0) =>
        /\ \E w \in log :
               /\ {"initial_frames", "count"} \subseteq DOMAIN w
               /\ w.initial_frames = TrackLength
               /\ w.count = DroppedSamples
        /\ (\E w \in log : w.kind = "dropped_frames")
               <=> (TrackLength - DroppedSamples) * 2 < TrackLength

\* the samples whose derived speed, before the clamp, exceeds 45 km/h
AnomalousSamples ==
    {i \in 1..Len(speed_ms) :
        ~IsNaN(speed_ms[i])
          /\ speed_ms[i] * 36 > VELOCITY_ANOMALY_THRESHOLD * 10}

AnomalyRecords == {w \in log : w.kind = "velocity_anomaly"}

\* C21: an anomaly warning is emitted if and only if the derived speed of
\* at least one sample exceeds 45 km/h, and it carries the number of such
\* samples counted on the speeds before the clamp.
C21_AnomaliesCounted ==
    ("extract" \in returned) =>
        /\ (AnomalyRecords # {}) <=> (AnomalousSamples # {})
        /\ \A w \in AnomalyRecords : w.count = Cardinality(AnomalousSamples)

\* a track with samples above 45 km/h, counted although all were clamped
C21_Witness ==
    /\ "extract" \in returned
    /\ Cardinality(AnomalousSamples) >= 2
    /\ [kind |-> "velocity_anomaly",
        count |-> Cardinality(AnomalousSamples)] \in log

----------------------------------------------------------------------------
(* filter_detected_positions: src/src/preprocessing/filters.py             *)
(* A table is a record of columns; min_detection_rate is per mille.        *)

MaxRows == 4

PlayerIds == {1, 2}

\* df[df['player_id'].isin(players)]: the rows of the given players, every
\* column filtered alike
RowsOfPlayers(table, players) ==
    [c \in DOMAIN table |->
        SelectMask(table[c],
                   [i \in 1..Len(table.player_id) |->
                       table.player_id[i] \in players], 1)]

\* df.groupby('player_id')['is_detected'].mean() >= min_detection_rate:
\* the players that occur in the table and whose rate reaches the minimum
ValidPlayers(table, rate) ==
    {p \in {table.player_id[i] : i \in 1..Len(table.player_id)} :
        LET rows == {i \in 1..Len(table.player_id) : table.player_id[i] = p}
            detected == {i \in rows : table.is_detected[i]}
        IN Cardinality(detected) * 1000 >= rate * Cardinality(rows)}

FilterDetectedPositions(table, rate) ==
    IF "is_detected" \notin DOMAIN table THEN table
    ELSE RowsOfPlayers(table, ValidPlayers(table, rate))

filter_detected_positions ==
    /\ "filter" \notin returned
    /\ filtered' = FilterDetectedPositions(positions, min_detection_rate)
    /\ returned' = returned \cup {"filter"}
    /\ UNCHANGED <<positions, min_detection_rate, frames, df, speed_ms, log,
                   fps>>
    /\ UNCHANGED <<clockVars, coordVars, arrayVars, smoothVars>>

\* the input tables: up to MaxRows samples of one or two players, with or
\* without the is_detected column
InitDetect ==
    /\ returned = {}
    /\ \E n \in 0..MaxRows :
          \E ids \in [1..n -> PlayerIds] :
             \/ positions = [player_id |-> ids]
             \/ \E flags \in [1..n -> BOOLEAN] :
                   positions = [player_id |-> ids, is_detected |-> flags]
    /\ min_detection_rate \in MinDetectionRates
    /\ filtered = <<>>
    /\ frames = <<>> /\ df = <<>> /\ speed_ms = <<>> /\ log = {}
    /\ fps = 10
    /\ ClockIdle /\ CoordIdle /\ ArraysIdle /\ SmoothIdle

NextDetect == filter_detected_positions

SpecDetect == InitDetect /\ [][NextDetect]_vars

\* C14: a track (the samples of one player) whose detection rate is
\* strictly below min_detection_rate is reduced to exactly its detected
\* samples in their original order, and a track whose rate reaches the
\* threshold is left unchanged.
C14_KeepsDetectedSamples ==
    ( /\ "filter" \in returned
      /\ "is_detected" \in DOMAIN positions
      /\ Cardinality({positions.player_id[i] :
                         i \in 1..Len(positions.player_id)}) = 1 )
    => LET n == Len(positions.is_detected)
           detected == {i \in 1..n : positions.is_detected[i]}
       IN filtered =
             IF Cardinality(detected) * 1000 < min_detection_rate * n
             THEN [c \in DOMAIN positions |->
                      SelectMask(positions[c], positions.is_detected, 1)]
             ELSE positions

====
